---- MODULE Spec2Model ----
(***************************************************************************)
(* Model of src/dashboard.py: class WebsiteMonitor.                        *)
(*                                                                         *)
(* The main thread executes run(): run_health_checks() submits one probe   *)
(* per entry of self.websites to a thread pool, collects the futures with  *)
(* as_completed() and records each result with update_status_history();    *)
(* display_status() then renders the histories.  Worker threads execute    *)
(* check_status() only; they never touch status_history.                   *)
(*                                                                         *)
(* Optional values (Python None) are sequences of length at most one:      *)
(* <<>> is None, <<x>> is the value x.                                     *)
(***************************************************************************)
EXTENDS Integers, Sequences, FiniteSets, TLC

\* ---------------------------------------------------------------- bounds
MaxHistorySize == 2    \* largest configured history_size
MaxCycles == 3         \* check cycles started in one run
CheckIntervalTicks == 2 \* check_interval, in sleep periods of the run loop
MaxClock == 3          \* latest time of a repeated render

\* ------------------------------------------------------------ value sets
URLS == {"a", "b"}
Codes == {200}
WideCodes == {100, 199, 200, 201, 301, 399, 400, 404, 500, 503, 599}
Latencies == {12}
WideLatencies == {0, 12}
Sizes == {<<80, 3>>, <<80, 24>>}
WideSizes == {<<80, r>> : r \in {3, 5, 6, 7, 24}} \cup {<<100, 24>>}
NoTerm == <<0, 0>>     \* the terminal size cannot be obtained
NoSize == <<0, 1>>     \* current_terminal_size is not in scope
TermStates == Sizes \cup {NoTerm}

None == <<>>
Some(x) == <<x>>

Range(s) == {s[k] : k \in DOMAIN s}
Min(x, y) == IF x <= y THEN x ELSE y
Max(x, y) == IF x >= y THEN x ELSE y

\* The configured website lists (config['websites']): one website, two
\* different websites, the same website listed twice.
Configs == {<<"a">>, <<"a", "b">>, <<"a", "a">>}

\* What the network does to one GET: a response with a status code and a
\* latency, or an exception (timeout, DNS, refused, TLS, invalid URL).
NetException == [kind |-> "exception", code |-> 0, latency |-> 0]
Outcomes == [kind : {"response"}, code : Codes, latency : Latencies]
            \cup {NetException}
WideOutcomes ==
  [kind : {"response"}, code : WideCodes, latency : WideLatencies]
  \cup {NetException}

VARIABLES
  websites,              \* self.websites
  history_size,          \* self.history_size
  status_history,        \* self.status_history
  last_terminal_size,    \* self.last_terminal_size
  term,                  \* the terminal, as the environment has it
  pc,                    \* position of the main thread in run()
  caller,                \* which call of run_health_checks/display_status
  fut,                   \* state of each future of the current cycle
  net,                   \* what the network answered to each probe
  res,                   \* the value each future holds
  early,                 \* as_completed: the futures found finished when it
                         \* began
  waiterq,               \* as_completed: waiter.finished_futures
  recLog,                \* futures in the order their results were recorded
  clock,                 \* datetime.now(), as a logical clock
  cycles,                \* calls of run_health_checks so far
  elapsed,               \* time.time() - last_health_check, capped; 0
                         \* while it is dead (it is next assigned, not read)
  trigger,               \* why the current loop iteration updates, while
                         \* it submits its probes
  current_terminal_size, \* local of display_status; NoSize outside it
  screen,                \* what display_status last printed (see Render)
  renders,               \* renders so far, capped
  stopReason             \* how run() ended

vars == <<websites, history_size, status_history, last_terminal_size, term,
          pc, caller, fut, net, res, early, waiterq, recLog, clock, cycles,
          elapsed, trigger, current_terminal_size, screen, renders,
          stopReason>>

N == Len(websites)
Futures == 1..N

\* ------------------------------------------------------- pure functions

_get_terminal_size == IF term = NoTerm THEN <<80, 24>> ELSE term

_calculate_visible_websites_count_mut_nofloor == _get_terminal_size[2] - 5

_calculate_visible_websites_count == Max(1, _get_terminal_size[2] - 5)

check_status_mut_code0(o, now) ==
  IF o.kind = "response"
  THEN [timestamp |-> now, status_code |-> Some(o.code),
        response_time |-> Some(o.latency), is_error |-> FALSE,
        error_message |-> None, is_up |-> (200 <= o.code /\ o.code < 400)]
  ELSE [timestamp |-> now, status_code |-> Some(0), response_time |-> None,
        is_error |-> TRUE, error_message |-> Some("e"), is_up |-> FALSE]

check_status_mut_latency0(o, now) ==
  IF o.kind = "response"
  THEN [timestamp |-> now, status_code |-> Some(o.code),
        response_time |-> Some(o.latency), is_error |-> FALSE,
        error_message |-> None, is_up |-> (200 <= o.code /\ o.code < 400)]
  ELSE [timestamp |-> now, status_code |-> None, response_time |-> Some(0),
        is_error |-> TRUE, error_message |-> Some("e"), is_up |-> FALSE]

check_status_mut_200only(o, now) ==
  IF o.kind = "response"
  THEN [timestamp |-> now, status_code |-> Some(o.code),
        response_time |-> Some(o.latency), is_error |-> FALSE,
        error_message |-> None, is_up |-> (o.code = 200)]
  ELSE [timestamp |-> now, status_code |-> None, response_time |-> None,
        is_error |-> TRUE, error_message |-> Some("e"), is_up |-> FALSE]

check_status(o, now) ==
  IF o.kind = "response"
  THEN [timestamp |-> now, status_code |-> Some(o.code),
        response_time |-> Some(o.latency), is_error |-> FALSE,
        error_message |-> None, is_up |-> (200 <= o.code /\ o.code < 400)]
  ELSE [timestamp |-> now, status_code |-> None, response_time |-> None,
        is_error |-> TRUE, error_message |-> Some("e"), is_up |-> FALSE]

update_status_history_mut_nopop(h, website, status) ==
  [h EXCEPT ![website] = Append(h[website], status)]

update_status_history(h, website, status) ==
  LET appended == Append(h[website], status)
  IN [h EXCEPT ![website] =
        IF Len(appended) > history_size THEN Tail(appended) ELSE appended]

_initialize_status_history == [w \in Range(websites) |-> <<>>]

\* list(self.status_history.keys()): the websites in order of first
\* occurrence (a dict keeps one key per distinct website).
RECURSIVE Dedup(_)
Dedup(s) ==
  IF s = <<>> THEN <<>>
  ELSE LET front == Dedup(SubSeq(s, 1, Len(s) - 1))
           last == s[Len(s)]
       IN IF last \in Range(front) THEN front ELSE Append(front, last)

HistoryKeys == Dedup(websites)

\* One row of the table (lines 168-200): the "No data yet" placeholder, or
\* the latest status (UP/DOWN with the status code), the latest latency
\* (None and 0 are shown as "N/A": line 187 tests the truth of the value)
\* and one glyph per entry, oldest first.
RowOf_mut_age(website) ==
  LET statuses == status_history[website]
  IN IF statuses = <<>>
     THEN [website |-> website, nodata |-> TRUE, up |-> FALSE,
           code |-> None, time_info |-> None, glyphs |-> <<>>]
     ELSE LET latest == statuses[Len(statuses)]
          IN [website |-> website, nodata |-> FALSE, up |-> latest.is_up,
              code |-> latest.status_code,
              time_info |-> Some(clock - latest.timestamp),
              glyphs |-> [k \in 1..Len(statuses) |-> statuses[k].is_up]]

RowOf(website) ==
  LET statuses == status_history[website]
  IN IF statuses = <<>>
     THEN [website |-> website, nodata |-> TRUE, up |-> FALSE,
           code |-> None, time_info |-> None, glyphs |-> <<>>]
     ELSE LET latest == statuses[Len(statuses)]
          IN [website |-> website, nodata |-> FALSE, up |-> latest.is_up,
              code |-> latest.status_code,
              time_info |-> IF latest.response_time \in {None, Some(0)}
                            THEN None ELSE latest.response_time,
              glyphs |-> [k \in 1..Len(statuses) |-> statuses[k].is_up]]

\* What display_status prints (lines 146-203) at time now with the visible
\* count visible_count: the header with the time, the "Showing X of Y"
\* line and the table.  visible_count is kept with it as the local the
\* render used.
Render(visible_count, now) ==
  LET total_websites == Len(websites)
      keys == HistoryKeys
      visible_websites == SubSeq(keys, 1, Min(visible_count, Len(keys)))
  IN [header_time |-> now,
      visible_count |-> visible_count,
      showing |-> Min(visible_count, total_websites),
      total |-> total_websites,
      rows |-> [k \in 1..Len(visible_websites) |-> RowOf(visible_websites[k])]]

NoScreen == [header_time |-> 0, visible_count |-> 0, showing |-> 0,
             total |-> 0, rows |-> <<>>]

Cap(t) == Min(t, CheckIntervalTicks)

\* ----------------------------------------------------------------- Init

NoOutcome == [kind |-> "none", code |-> 0, latency |-> 0]
NoResult == [timestamp |-> 0, status_code |-> None, response_time |-> None,
             is_error |-> FALSE, error_message |-> None, is_up |-> FALSE]

\* run(), lines 221-222: run_health_checks() is called first, then
\* display_status().
FirstCall_mut_display == "display_begin"

FirstCall == "submit"

Init ==
  /\ websites \in Configs
  /\ history_size \in 1..MaxHistorySize
  /\ term \in TermStates
  /\ status_history = _initialize_status_history
  /\ last_terminal_size = _get_terminal_size
  /\ pc = FirstCall
  /\ caller = "init"
  /\ fut = [k \in 1..Len(websites) |-> "unsubmitted"]
  /\ net = [k \in 1..Len(websites) |-> NoOutcome]
  /\ res = [k \in 1..Len(websites) |-> NoResult]
  /\ early = {}
  /\ waiterq = <<>>
  /\ recLog = <<>>
  /\ clock = 0
  /\ cycles = 1
  /\ elapsed = 0
  /\ trigger = "init"
  /\ current_terminal_size = NoSize
  /\ screen = NoScreen
  /\ renders = 0
  /\ stopReason = "none"

\* -------------------------------------------------------------- actions

Running == {k \in Futures : fut[k] = "running"}

\* run_health_checks, line 125: executor.submit for the next website.
Submit ==
  /\ pc = "submit"
  /\ \E k \in Futures :
       /\ fut[k] = "unsubmitted"
       /\ \A j \in 1..(k - 1) : fut[j] # "unsubmitted"
       /\ fut' = [fut EXCEPT ![k] = "running"]
  /\ UNCHANGED <<websites, history_size, status_history, last_terminal_size,
                 term, pc, caller, net, res, early, waiterq, recLog, clock,
                 cycles, elapsed, trigger,
                 current_terminal_size, screen, renders, stopReason>>

\* A worker thread finishes check_status for future k with network outcome
\* o.  Workers run while the main thread submits, collects, or waits in the
\* executor's shutdown.  A completion during the collection is appended to
\* the waiter of as_completed.
ProbeComplete(k, o) ==
  /\ pc \in {"submit", "collect", "shutdown"}
  /\ fut[k] = "running"
  /\ clock' = clock + 1
  /\ net' = [net EXCEPT ![k] = o]
  /\ res' = [res EXCEPT ![k] = check_status(o, clock')]
  /\ fut' = [fut EXCEPT ![k] = "finished"]
  /\ waiterq' = IF pc = "collect" THEN Append(waiterq, k) ELSE waiterq
  /\ UNCHANGED <<websites, history_size, status_history, last_terminal_size,
                 term, pc, caller, early, recLog, cycles, elapsed,
                 trigger, current_terminal_size, screen,
                 renders, stopReason>>

\* run_health_checks, line 126: as_completed(future_to_website) starts once
\* every website is submitted; the futures already finished are yielded
\* first, in no particular order.
AsCompletedBegin ==
  /\ pc = "submit"
  /\ \A k \in Futures : fut[k] # "unsubmitted"
  /\ early' = {k \in Futures : fut[k] = "finished"}
  /\ waiterq' = <<>>
  /\ pc' = "collect"
  /\ trigger' = "none"
  /\ UNCHANGED <<websites, history_size, status_history, last_terminal_size,
                 term, caller, fut, net, res, recLog, clock, cycles, elapsed,
                 current_terminal_size, screen, renders, stopReason>>

\* The futures as_completed may yield next.
as_completed_next_mut_batched ==
  IF Running # {} THEN {}
  ELSE LET ready == {k \in early : fut[k] = "finished"}
       IN IF ready # {} THEN ready
          ELSE IF waiterq # <<>> THEN {Head(waiterq)} ELSE {}

as_completed_next ==
  LET ready == {k \in early : fut[k] = "finished"}
  IN IF ready # {} THEN ready
     ELSE IF waiterq # <<>> THEN {Head(waiterq)} ELSE {}

\* The for loop of as_completed ends when every future has been yielded.
AllCollected_mut_nojoin(f) == \A k \in DOMAIN f : f[k] # "finished"

AllCollected(f) == \A k \in DOMAIN f : f[k] = "recorded"

\* run_health_checks, lines 126-134: one iteration of the for loop; after
\* the last one the executor is left and run_health_checks returns.
RecordNext ==
  /\ pc = "collect"
  /\ \E k \in as_completed_next :
       /\ status_history' =
            update_status_history(status_history, websites[k], res[k])
       /\ fut' = [fut EXCEPT ![k] = "recorded"]
       /\ recLog' = Append(recLog, k)
       /\ waiterq' = IF k \in early THEN waiterq ELSE Tail(waiterq)
  /\ pc' = IF AllCollected(fut') THEN "display_begin" ELSE "collect"
  /\ UNCHANGED <<websites, history_size, last_terminal_size, term, caller,
                 net, res, early, clock, cycles, elapsed, trigger,
                 current_terminal_size, screen, renders, stopReason>>

\* display_status, lines 140-147.
DisplayBegin ==
  /\ pc = "display_begin"
  /\ current_terminal_size' = _get_terminal_size
  /\ pc' = "display_end"
  /\ UNCHANGED <<websites, history_size, status_history, last_terminal_size,
                 term, caller, fut, net, res, early, waiterq, recLog, clock,
                 cycles, elapsed, trigger, screen, renders,
                 stopReason>>

\* time.time() - current_time at line 235: the time the checks and the
\* render of this iteration took, capped.
SinceSample == 0..CheckIntervalTicks

\* display_status, lines 149-206, and the statement of run() after it:
\* line 224 after the first render, lines 235-236 in the loop.
DisplayEnd ==
  /\ pc = "display_end"
  /\ screen' = Render(_calculate_visible_websites_count, clock)
  /\ last_terminal_size' = current_terminal_size
  /\ renders' = Min(renders + 1, 2)
  /\ IF caller = "loop" THEN elapsed' \in SinceSample ELSE elapsed' = 0
  /\ pc' = IF caller = "loop" THEN "sleep" ELSE "loop_top"
  /\ current_terminal_size' = NoSize
  /\ trigger' = "none"
  /\ UNCHANGED <<websites, history_size, status_history, term, caller, fut,
                 net, res, early, waiterq, recLog, clock, cycles,
                 stopReason>>

_has_terminal_size_changed_mut_grown ==
  _get_terminal_size[2] > last_terminal_size[2]

_has_terminal_size_changed == _get_terminal_size # last_terminal_size

\* run(), line 231: current_time - last_health_check >= check_interval.
Due_mut_strict == elapsed > CheckIntervalTicks

Due == elapsed >= CheckIntervalTicks

\* run(), lines 228-232: the loop's condition.
LoopTop ==
  /\ pc = "loop_top"
  /\ LET due == Due
     IN IF due \/ _has_terminal_size_changed
        THEN /\ cycles < MaxCycles
             /\ pc' = "submit"
             /\ caller' = "loop"
             /\ trigger' = IF due THEN "due" ELSE "resize"
             /\ cycles' = cycles + 1
             /\ fut' = [k \in Futures |-> "unsubmitted"]
             /\ net' = [k \in Futures |-> NoOutcome]
             /\ res' = [k \in Futures |-> NoResult]
             /\ early' = {}
             /\ waiterq' = <<>>
             /\ recLog' = <<>>
             /\ elapsed' = 0
        ELSE /\ pc' = "sleep"
             /\ UNCHANGED <<caller, trigger, cycles, fut, net, res, early,
                            waiterq, recLog, elapsed>>
  /\ UNCHANGED <<websites, history_size, status_history, last_terminal_size,
                 term, clock, current_terminal_size, screen, renders,
                 stopReason>>

\* run(), line 238: time.sleep(0.5).
Sleep ==
  /\ pc = "sleep"
  /\ elapsed' = Cap(elapsed + 1)
  /\ pc' = "loop_top"
  /\ UNCHANGED <<websites, history_size, status_history, last_terminal_size,
                 term, caller, fut, net, res, early, waiterq, recLog, clock,
                 cycles, trigger, current_terminal_size, screen, renders,
                 stopReason>>

\* The user resizes the terminal (a process without a terminal stays
\* without one).
Resize ==
  /\ pc # "stopped"
  /\ term \in Sizes
  /\ term' \in Sizes \ {term}
  /\ UNCHANGED <<websites, history_size, status_history, last_terminal_size,
                 pc, caller, fut, net, res, early, waiterq, recLog, clock,
                 cycles, elapsed, trigger,
                 current_terminal_size, screen, renders, stopReason>>

\* Where an exception raised at position p of run() takes the main thread:
\* inside the with block of run_health_checks the executor's __exit__
\* first waits for the running probes.
Unwind_mut_swallow(p) ==
  IF p = "collect" THEN "collect"
  ELSE IF p = "submit" THEN "shutdown" ELSE "stopped"

Unwind(p) == IF p \in {"submit", "collect"} THEN "shutdown" ELSE "stopped"

\* The exception leaves the frames of display_status, as_completed and the
\* loop of run(): their locals are gone.  (early is kept while the executor
\* shuts down, as the record of which futures as_completed found finished.)
LocalsDropped ==
  /\ caller' = "none"
  /\ trigger' = "none"
  /\ elapsed' = 0
  /\ current_terminal_size' = NoSize
  /\ waiterq' = <<>>

\* The exception has left run_health_checks: its futures (the dict
\* future_to_website of line 125) are gone with its frame.
FuturesDropped ==
  /\ fut' = [k \in Futures |-> "unsubmitted"]
  /\ net' = [k \in Futures |-> NoOutcome]
  /\ res' = [k \in Futures |-> NoResult]
  /\ early' = {}
  /\ recLog' = <<>>

\* KeyboardInterrupt in the main thread (lines 240-242).
Interrupt ==
  /\ pc \notin {"stopped", "shutdown"}
  /\ stopReason' = "interrupt"
  /\ pc' = Unwind(pc)
  /\ LocalsDropped
  /\ IF pc' = "stopped" THEN FuturesDropped
     ELSE UNCHANGED <<fut, net, res, early, recLog>>
  /\ UNCHANGED <<websites, history_size, status_history, last_terminal_size,
                 term, clock, cycles, screen, renders>>

\* An exception other than KeyboardInterrupt raised where run() and
\* run_health_checks() have no handler of their own: executor.submit
\* (line 125) or the console output of display_status (lines 140-203).
\* It reaches the handler of lines 243-245, after which run() returns.
\* (The handler of lines 135-136 covers only future.result(),
\* update_status_history and the log call; check_status returns a result
\* for every exception and the website is always a key of status_history.)
Fault ==
  /\ pc \in {"submit", "display_begin", "display_end"}
  /\ stopReason' = "error"
  /\ pc' = Unwind(pc)
  /\ LocalsDropped
  /\ IF pc' = "stopped" THEN FuturesDropped
     ELSE UNCHANGED <<fut, net, res, early, recLog>>
  /\ UNCHANGED <<websites, history_size, status_history, last_terminal_size,
                 term, clock, cycles, screen, renders>>

\* ThreadPoolExecutor.__exit__ after an exception: shutdown(wait=True)
\* returns when no probe is running; the exception then reaches run().
ShutdownDone ==
  /\ pc = "shutdown"
  /\ Running = {}
  /\ pc' = "stopped"
  /\ FuturesDropped
  /\ UNCHANGED <<websites, history_size, status_history, last_terminal_size,
                 term, caller, waiterq, clock, cycles, elapsed, trigger,
                 current_terminal_size, screen, renders, stopReason>>

Next ==
  \/ Submit
  \/ \E k \in Futures, o \in Outcomes : ProbeComplete(k, o)
  \/ AsCompletedBegin
  \/ RecordNext
  \/ DisplayBegin
  \/ DisplayEnd
  \/ LoopTop
  \/ Sleep
  \/ Resize
  \/ Interrupt
  \/ Fault
  \/ ShutdownDone

Spec == Init /\ [][Next]_vars

\* The probing alone, over a wider range of status codes.
ProbeNext ==
  \/ Submit
  \/ \E k \in Futures, o \in WideOutcomes : ProbeComplete(k, o)

ProbeSpec == Init /\ [][ProbeNext]_vars

\* display_status() called once more on the histories of the first cycle.
Redisplay ==
  /\ pc = "loop_top"
  /\ pc' = "display_begin"
  /\ caller' = "redisplay"
  /\ UNCHANGED <<websites, history_size, status_history, last_terminal_size,
                 term, fut, net, res, early, waiterq, recLog, clock, cycles,
                 elapsed, trigger, current_terminal_size, screen, renders,
                 stopReason>>

\* Time passes between two renders (datetime.now() of line 146).
Tick ==
  /\ pc = "loop_top"
  /\ clock < MaxClock
  /\ clock' = clock + 1
  /\ UNCHANGED <<websites, history_size, status_history, last_terminal_size,
                 term, pc, caller, fut, net, res, early, waiterq, recLog,
                 cycles, elapsed, trigger, current_terminal_size, screen,
                 renders, stopReason>>

\* The user resizes the terminal to any of a wider range of sizes, between
\* two renders or in the middle of one.
WideResize ==
  /\ pc \in {"display_end", "loop_top"}
  /\ term # NoTerm
  /\ term' \in WideSizes \ {term}
  /\ UNCHANGED <<websites, history_size, status_history, last_terminal_size,
                 pc, caller, fut, net, res, early, waiterq, recLog, clock,
                 cycles, elapsed, trigger,
                 current_terminal_size, screen, renders, stopReason>>

\* The first cycle and repeated renders of its histories, at any time and
\* terminal size.
RenderNext ==
  \/ Submit
  \/ \E k \in Futures, o \in Outcomes : ProbeComplete(k, o)
  \/ AsCompletedBegin
  \/ RecordNext
  \/ DisplayBegin
  \/ DisplayEnd
  \/ Redisplay
  \/ Tick
  \/ WideResize

RenderSpec == Init /\ [][RenderNext]_vars

TypeOK ==
  /\ pc \in {"submit", "collect", "display_begin", "display_end",
              "loop_top", "sleep", "shutdown", "stopped"}
  /\ cycles \in 1..MaxCycles
  /\ elapsed \in 0..CheckIntervalTicks

\* The probes end (each GET has a timeout) and the main thread leaves the
\* executor once they have.
\* The fair behaviours are explored for the history sizes 1 and 2.
FairInit == Init /\ history_size \in {1, 2}

FairSpec ==
  /\ FairInit
  /\ [][Next]_vars
  /\ WF_vars(\E k \in Futures, o \in Outcomes : ProbeComplete(k, o))
  /\ WF_vars(ShutdownDone)

\* --------------------------------------------------------------- claims

Done(k) == fut[k] \in {"finished", "recorded"}
TS(k) == res[k].timestamp
Returned == pc \in {"display_begin", "display_end"}
\* positions of recLog that recorded a result for website w
RecordsOf(w) == {p \in DOMAIN recLog : websites[recLog[p]] = w}
PosOf(k) == {p \in DOMAIN recLog : recLog[p] = k}

\* C1: in every reachable state every website's history has at most
\* history_size entries.
C1_HistoryBounded ==
  \A w \in DOMAIN status_history : Len(status_history[w]) <= history_size

\* a full history whose oldest entry is no longer one of the first cycle
C1_Witness ==
  \E w \in DOMAIN status_history :
    /\ Len(status_history[w]) = history_size
    /\ status_history[w][1].timestamp > N

\* C2 (as claimed): every history is ordered by the completion time of its
\* website's probes, oldest first, and the most recently completed result
\* recorded for a website is never the one evicted.
C2_LastInCompletionOrder ==
  \A w \in DOMAIN status_history :
    LET h == status_history[w]
    IN /\ \A p, q \in DOMAIN h : p < q => h[p].timestamp < h[q].timestamp
       /\ \A k \in Futures :
            (/\ fut[k] = "recorded"
             /\ websites[k] = w
             /\ \A j \in Futures :
                  (fut[j] = "recorded" /\ websites[j] = w) => TS(j) <= TS(k))
            => res[k] \in Range(h)

\* C3: a response with code C gives is_up = (200 <= C < 400) and
\* status_code = C; a transport failure gives is_up = false and no
\* status_code.
C3_Classification ==
  \A k \in Futures :
    Done(k) =>
      /\ net[k].kind = "response" =>
           /\ res[k].is_up = (200 <= net[k].code /\ net[k].code < 400)
           /\ res[k].status_code = Some(net[k].code)
      /\ net[k].kind = "exception" =>
           /\ res[k].is_up = FALSE
           /\ res[k].status_code = None

\* one probe answered 503 (down, with its code), another failed
C3_Witness ==
  \E k, j \in Futures :
    /\ Done(k) /\ net[k].kind = "response" /\ net[k].code = 503
    /\ ~res[k].is_up /\ res[k].status_code = <<503>>
    /\ Done(j) /\ net[j].kind = "exception" /\ res[j].status_code = None

\* C4 (as claimed): when run_health_checks has returned no probe is in
\* flight and every configured website has exactly one new result of the
\* cycle recorded in its history.
C4_OneResultPerEndpoint ==
  Returned =>
    /\ Running = {}
    /\ \A w \in Range(websites) : Cardinality(RecordsOf(w)) = 1

\* The result of future k is in its website's history, at the place its
\* record put it, unless later records of the cycle have evicted it.
InHistory(k) ==
  \A p \in PosOf(k) :
    LET w == websites[k]
        later == Cardinality({q \in RecordsOf(w) : q > p})
        h == status_history[w]
    IN later < history_size =>
         (Len(h) > later /\ h[Len(h) - later] = res[k])

\* C5: when a cycle has ended, whatever subset of its probes failed, every
\* probe has been recorded exactly once: a failed one as is_up = false
\* without status code, any other with its own response's code.  And no
\* outcome blocks the cycle: the main thread can always submit, start the
\* collection or record, unless all it waits for is a running probe.
C5_FailureIsolation ==
  /\ Returned =>
       \A k \in Futures :
         /\ fut[k] = "recorded"
         /\ Cardinality(PosOf(k)) = 1
         /\ InHistory(k)
         /\ net[k].kind = "exception" =>
              (~res[k].is_up /\ res[k].status_code = None /\ res[k].is_error)
         /\ net[k].kind = "response" =>
              (res[k].status_code = Some(net[k].code) /\ ~res[k].is_error)
  /\ pc = "submit" => ENABLED (Submit \/ AsCompletedBegin)
  /\ (pc = "collect" /\ Running = {}) => ENABLED RecordNext

\* a cycle has ended in which one website failed and another answered
C5_Witness ==
  /\ pc = "display_begin"
  /\ \E k, j \in Futures :
       /\ websites[k] # websites[j]
       /\ net[k].kind = "exception" /\ fut[k] = "recorded"
       /\ net[j].kind = "response" /\ fut[j] = "recorded"
       /\ res[j].is_up

\* C6 (as claimed): from the detection of a resize with the interval not
\* elapsed until the render, no probe is issued and no history changes.
C6_ResizeOnlyRenders ==
  [][trigger' = "resize" =>
       /\ status_history' = status_history
       /\ \A k \in Futures : fut'[k] # "running"]_vars

\* C7 (as claimed): a fault other than the interrupt does not end the run
\* loop.
C7_FaultDoesNotStop ==
  ~(stopReason = "error" /\ pc \in {"shutdown", "stopped"})

C9_RecordOrderIsCompletionOrder ==
  \A p, q \in DOMAIN recLog : p < q => TS(recLog[p]) < TS(recLog[q])

\* C9 (amended): the probes that had completed when as_completed began are
\* recorded first; the others are recorded in the order they completed; and
\* a completed probe never waits for a running one to be recorded.
C9_RecordedAsCompleted ==
  /\ \A p, q \in DOMAIN recLog :
       p < q =>
         /\ recLog[q] \in early => recLog[p] \in early
         /\ (recLog[p] \notin early /\ recLog[q] \notin early)
              => TS(recLog[p]) < TS(recLog[q])
  /\ (pc = "collect" /\ \E k \in Futures : fut[k] = "finished")
       => ENABLED RecordNext

\* a result of the cycle is in its history while a slower probe of the
\* same cycle is still running
C9_Witness ==
  /\ pc = "collect"
  /\ \E k, j \in Futures :
       /\ fut[k] = "recorded"
       /\ res[k] \in Range(status_history[websites[k]])
       /\ fut[j] = "running"

\* C10: when display_status runs, every probe of the cycle has been
\* recorded, and every website's newest entry is one of that cycle.
C10_RenderAfterJoin ==
  Returned =>
    /\ \A k \in Futures : fut[k] = "recorded" /\ PosOf(k) # {}
    /\ \A w \in DOMAIN status_history :
         /\ status_history[w] # <<>>
         /\ status_history[w][Len(status_history[w])].timestamp
              > (cycles - 1) * N

\* the render of a later cycle over two probes is about to read the
\* histories
C10_Witness ==
  pc = "display_end" /\ cycles >= 2 /\ N = 2

\* C11: the first render, and every later one, comes after a full check
\* cycle: nothing is on the screen before, and whenever display_status runs
\* or has run every website has a history entry, the screen has a row, and
\* no row is the "No data yet" placeholder.
C11_NoPlaceholderShown ==
  /\ renders = 0 => screen = NoScreen
  /\ (Returned \/ renders >= 1) =>
       \A w \in DOMAIN status_history : status_history[w] # <<>>
  /\ renders >= 1 => screen.rows # <<>>
  /\ \A k \in DOMAIN screen.rows : ~screen.rows[k].nodata

\* the first render of two websites has just been made
C11_Witness ==
  /\ renders = 1
  /\ pc = "loop_top"
  /\ Len(screen.rows) = 2
  /\ \A k \in DOMAIN screen.rows :
       /\ ~screen.rows[k].nodata
       /\ screen.rows[k].glyphs # <<>>

\* C12: for every terminal the visible count is rows - 5 when that is at
\* least 1 and 1 otherwise, so never 0 or negative; 3 rows give 1, 24 rows
\* and the fallback for a missing terminal give 19; and every render was
\* made with a visible count of at least 1.
C12_VisibleCountFloor ==
  LET rows == _get_terminal_size[2]
      visible_count == _calculate_visible_websites_count
  IN /\ visible_count >= 1
     /\ visible_count = (IF rows > 5 THEN rows - 5 ELSE 1)
     /\ rows = 3 => visible_count = 1
     /\ rows = 24 => visible_count = 19
     /\ term = NoTerm => (rows = 24 /\ visible_count = 19)
     /\ renders >= 1 => (screen.visible_count >= 1 /\ Len(screen.rows) >= 1)

\* a render was made on a terminal of 5 rows, with two websites configured
C12_Witness ==
  /\ pc = "loop_top"
  /\ caller = "redisplay"
  /\ N = 2
  /\ term = <<80, 5>>
  /\ last_terminal_size = <<80, 5>>
  /\ screen.visible_count = 1
  /\ Len(screen.rows) = 1

\* C13 (as claimed): every render shows exactly the first
\* min(visible_count, total) configured websites, in configuration order,
\* with "Showing X of Y" where X = min(visible_count, total) and Y = total.
C13_PrefixInConfigOrder ==
  renders >= 1 =>
    LET X == Min(screen.visible_count, N)
    IN /\ screen.showing = X
       /\ screen.total = N
       /\ Len(screen.rows) = X
       /\ \A k \in DOMAIN screen.rows : screen.rows[k].website = websites[k]

\* C14: a step of the run loop's condition changes neither the stored
\* dimensions nor any history; when the interval has not elapsed the loop
\* updates exactly when the current dimensions differ from the stored ones;
\* and the stored dimensions change only at the end of a render, to the
\* dimensions that render sampled.
C14_HasChangedIsPureComparison ==
  [][/\ pc = "loop_top" =>
          /\ last_terminal_size' = last_terminal_size
          /\ status_history' = status_history
          /\ (elapsed < CheckIntervalTicks /\ pc' = "submit")
               => _get_terminal_size # last_terminal_size
          /\ (elapsed < CheckIntervalTicks /\ pc' = "sleep")
               => _get_terminal_size = last_terminal_size
     /\ last_terminal_size' # last_terminal_size =>
          /\ pc = "display_end"
          /\ pc' \in {"loop_top", "sleep"}
          /\ last_terminal_size' = current_terminal_size]_vars

\* before the interval has elapsed the loop has found the terminal changed
\* since the last render
C14_Witness ==
  /\ pc = "submit"
  /\ trigger = "resize"
  /\ renders >= 1
  /\ _get_terminal_size # last_terminal_size

\* A repeated render of the same histories ends, having sampled the stored
\* dimensions and computed the visible count of the render before.
SameSnapshotAndDimensions ==
  /\ pc = "display_end"
  /\ caller = "redisplay"
  /\ pc' = "loop_top"
  /\ status_history' = status_history
  /\ current_terminal_size = last_terminal_size
  /\ screen'.visible_count = screen.visible_count

\* C15 (as claimed): rendering the same histories twice with unchanged
\* terminal dimensions gives identical output.
C15_RenderIdempotent ==
  [][SameSnapshotAndDimensions => screen' = screen]_vars

\* C15 (amended): rendering the same histories twice with unchanged
\* terminal dimensions gives the same "Showing X of Y" line and the same
\* table; the header line carries the time of the render.
C15_SameTableAndCount ==
  [][SameSnapshotAndDimensions =>
       /\ screen'.showing = screen.showing
       /\ screen'.total = screen.total
       /\ screen'.rows = screen.rows
       /\ screen'.header_time = clock]_vars

\* the histories of two websites, one up and one down, were rendered again
\* after the time had advanced
C15_Witness ==
  /\ pc = "loop_top"
  /\ caller = "redisplay"
  /\ screen.header_time > N
  /\ Len(screen.rows) = 2
  /\ screen.rows[1].up
  /\ ~screen.rows[2].up

\* C16: every probe ends with a result, whatever the network did: after an
\* exception is_up is false, the error is recorded and there is no latency
\* (not a latency of 0); after a response the latency is the measured one
\* (present even when it is 0) and there is no error detail.
C16_ProbeNeverRaises ==
  /\ \A k \in Futures :
       fut[k] = "running" =>
         \A o \in WideOutcomes : ENABLED ProbeComplete(k, o)
  /\ \A k \in Futures :
       Done(k) =>
         /\ net[k].kind \in {"response", "exception"}
         /\ net[k].kind = "exception" =>
              /\ ~res[k].is_up
              /\ res[k].is_error
              /\ res[k].error_message # None
              /\ res[k].response_time = None
         /\ net[k].kind = "response" =>
              /\ res[k].response_time = Some(net[k].latency)
              /\ ~res[k].is_error
              /\ res[k].error_message = None

\* one probe failed, another got a response measured at 0 ms
C16_Witness ==
  \E k, j \in Futures :
    /\ Done(k) /\ net[k].kind = "exception" /\ res[k].response_time = None
    /\ res[k].error_message # None
    /\ Done(j) /\ net[j].kind = "response" /\ res[j].response_time = <<0>>

\* C17: the waiting loop leaves its wait only from the loop's condition and
\* only into a check cycle, and only if the interval has elapsed or the
\* terminal differs from the last render; when the loop's condition is
\* evaluated with the interval elapsed a cycle starts, for that reason; a
\* sleep is followed by the next evaluation; and the condition can always
\* be evaluated.
C17_CycleWhenDueOrResized ==
  /\ [][/\ (pc \in {"loop_top", "sleep"}
             /\ pc' \notin {"loop_top", "sleep", "stopped"}) =>
             /\ pc = "loop_top"
             /\ pc' = "submit"
             /\ \/ elapsed >= CheckIntervalTicks
                \/ _get_terminal_size # last_terminal_size
        /\ (pc = "loop_top" /\ elapsed >= CheckIntervalTicks
             /\ pc' \in {"submit", "sleep"}) =>
             /\ pc' = "submit"
             /\ trigger' = "due"
             /\ cycles' = cycles + 1
        /\ (pc = "sleep" /\ pc' \notin {"sleep", "stopped"}) =>
             /\ pc' = "loop_top"
             /\ elapsed' = Cap(elapsed + 1)]_vars
  /\ []((pc = "loop_top" /\ cycles < MaxCycles) => ENABLED LoopTop)
  /\ [](pc = "sleep" => ENABLED Sleep)

\* a cycle has started because the interval elapsed, the terminal being
\* as at the last render
C17_Witness ==
  /\ pc = "submit"
  /\ trigger = "due"
  /\ cycles >= 2
  /\ _get_terminal_size = last_terminal_size

\* C18 (as claimed): at every moment each website has at most one probe
\* running, and a cycle records at most one result per website.
C18_OneProbePerEndpoint ==
  \A w \in Range(websites) :
    /\ Cardinality({k \in Running : websites[k] = w}) <= 1
    /\ Cardinality(RecordsOf(w)) <= 1

\* C19 (as claimed): after every render the stored dimensions are the ones
\* from which that render's visible count was computed.
C19_StoredDimensionsAreRendered ==
  renders >= 1 => screen.visible_count = Max(1, last_terminal_size[2] - 5)

\* C20 (as claimed): in every render X of "Showing X of Y" is the number
\* of rows of the table and Y is the number of websites with a history.
C20_IndicatorMatchesTable ==
  renders >= 1 =>
    /\ screen.showing = Len(screen.rows)
    /\ screen.total = Cardinality(DOMAIN status_history)

====
